---- MODULE Spec2Model ----
(***************************************************************************)
(* Model of the traffic-video processors                                   *)
(*   processor/yolov4_detect.py   (detect_cars and its __main__ block)     *)
(*   processor/process_video.py   (run_yolo_inference, simulate_processing *)
(*                                 and main)                               *)
(* One behaviour is one run of one of the three pipelines on one video.    *)
(*                                                                         *)
(* Units.  Fractions and confidences are integers in thousandths (Milli),  *)
(* pixel coordinates are integers, reported percentages are integers in    *)
(* hundredths of a percent (round(.., 2) of a percentage), and reported    *)
(* confidences are integers in hundredths.                                 *)
(***************************************************************************)
EXTENDS Integers, Sequences, FiniteSets, TLC

\* ---------------------------------------------------------------- bounds
MaxFrames == 6
MaxBoxes == 3

\* ------------------------------------------------------ program constants
Milli == 1000
PctScale == 10000
ConfCut == 500
ScoreThreshold == 500
NmsThreshold == 400
MaxSamples == 20
GreenMin == 15
AmberMin == 8

Classes == <<"person", "bicycle", "car", "motorbike", "aeroplane", "bus", "train", "truck">>
VehicleClassesWithPerson == {"car", "bus", "truck", "motorbike", "person"}
VehicleClasses == {"car", "bus", "truck", "motorbike"}
YoloNames == <<"person", "bicycle", "car", "motorcycle", "airplane", "bus", "train", "truck">>
SimLabels == {"bicycle", "bus", "car", "jeep", "pedestrian", "truck"}

InitCountsDetect == [l \in {"car", "bus", "truck", "motorbike"} |-> 0]
InitCountsSimulate == [l \in SimLabels |-> 0]
InitCountsYolo == [l \in {} |-> 0]

Pipelines == {"detect_cars", "run_yolo_inference", "simulate_processing"}
FrameSizes == {<<100, 100>>, <<640, 360>>}

\* ------------------------------------------------------------ arithmetic
Max(a, b) == IF a >= b THEN a ELSE b
Min(a, b) == IF a <= b THEN a ELSE b

\* Python round(n/d) for d > 0: nearest integer, ties to even.
RoundHalfEven(n, d) ==
  LET q == n \div d
      r == n % d
  IN IF 2 * r < d THEN q
     ELSE IF 2 * r > d THEN q + 1
     ELSE IF q % 2 = 0 THEN q ELSE q + 1

\* round(v / dim * 100, 2), in hundredths of a percent.
Pct(v, dim) == RoundHalfEven(v * PctScale, dim)

\* round(confidence, 2), in hundredths.
Round2(conf) == RoundHalfEven(conf * 100, Milli)

\* int(detection[k] * dim) for a non-negative fraction in thousandths.
IntMul(f, dim) == (f * dim) \div Milli

\* int(c - w / 2) with floor instead of truncation toward zero.
IntHalfDiffFloor(c, w) == (2 * c - w) \div 2

\* int(c - w / 2): Python int() truncates toward zero.
IntHalfDiff(c, w) ==
  LET n == 2 * c - w
  IN IF n >= 0 THEN n \div 2 ELSE -((-n) \div 2)

RECURSIVE SumOver(_, _)
SumOver(f, S) ==
  IF S = {} THEN 0
  ELSE LET k == CHOOSE k \in S : TRUE
       IN f[k] + SumOver(f, S \ {k})

\* sum(vehicle_counts.values())
SumValues(f) == SumOver(f, DOMAIN f)

\* ------------------------------------------ cv2.dnn.NMSBoxes on int rects
Area(b) == b.w * b.h

\* Rect operator & followed by area(): empty when width or height <= 0.
InterArea(a, b) ==
  LET x1 == Max(a.x, b.x)
      y1 == Max(a.y, b.y)
      iw == Min(a.x + a.w, b.x + b.w) - x1
      ih == Min(a.y + a.h, b.y + b.h) - y1
  IN IF iw <= 0 \/ ih <= 0 THEN 0 ELSE iw * ih

\* 1 - jaccardDistance(a, b) > thr/1000; two empty rects have distance 0.
OverlapExceeds(a, b, thr) ==
  IF Area(a) + Area(b) <= 0 THEN Milli > thr
  ELSE Milli * InterArea(a, b) > thr * (Area(a) + Area(b) - InterArea(a, b))

\* Indices by score ascending.
RECURSIVE SortAsc(_, _)
SortAsc(S, conf) ==
  IF S = {} THEN <<>>
  ELSE LET i == CHOOSE i \in S :
                  \A j \in S : conf[i] < conf[j] \/ (conf[i] = conf[j] /\ i <= j)
       IN <<i>> \o SortAsc(S \ {i}, conf)

\* Indices by score descending, stable (ties keep the original order).
RECURSIVE SortDesc(_, _)
SortDesc(S, conf) ==
  IF S = {} THEN <<>>
  ELSE LET i == CHOOSE i \in S :
                  \A j \in S : conf[i] > conf[j] \/ (conf[i] = conf[j] /\ i <= j)
       IN <<i>> \o SortDesc(S \ {i}, conf)

RECURSIVE Greedy(_, _, _, _)
Greedy(order, kept, bxs, thr) ==
  IF order = <<>> THEN kept
  ELSE LET i == Head(order)
           keep == \A k \in kept : ~OverlapExceeds(bxs[i], bxs[k], thr)
       IN Greedy(Tail(order), IF keep THEN kept \cup {i} ELSE kept, bxs, thr)

\* A suppressor that keeps every box above the score threshold.
NMSBoxesNoSuppress(bxs, confidences, score_threshold, nms_threshold) ==
  {i \in 1..Len(bxs) : confidences[i] > score_threshold}

NMSBoxes(bxs, confidences, score_threshold, nms_threshold) ==
  LET cand == {i \in 1..Len(bxs) : confidences[i] > score_threshold}
  IN Greedy(SortDesc(cand, confidences), {}, bxs, nms_threshold)

\* --------------------------------------------------- yolov4_detect.py
\* Line 81 and the try/except around lines 83-97: a raw row is kept when its
\* class is a vehicle class with confidence > 0.5; a non-finite row makes
\* int() raise, and the except clause skips it.
DetectKeep(d) ==
  /\ d.cls <= Len(Classes)
  /\ Classes[d.cls] \in VehicleClasses
  /\ d.conf > ConfCut
  /\ d.finite

\* Lines 83-95: the pixel box of a kept row.
ToBoxDetect(d, W, H) ==
  LET center_x == IntMul(d.cx, W)
      center_y == IntMul(d.cy, H)
      w == IntMul(d.w, W)
      h == IntMul(d.h, H)
  IN [label |-> Classes[d.cls], conf |-> d.conf,
      x |-> IntHalfDiff(center_x, w), y |-> IntHalfDiff(center_y, h),
      w |-> w, h |-> h, src |-> d]

BuildBoxesDetect(raw, W, H) ==
  LET sel == SelectSeq(raw, DetectKeep)
  IN [i \in 1..Len(sel) |-> ToBoxDetect(sel[i], W, H)]

IndexesDetect(bxs) ==
  NMSBoxes(bxs, [i \in 1..Len(bxs) |-> bxs[i].conf], ScoreThreshold, NmsThreshold)

\* --------------------------------------------------- process_video.py
\* run_yolo_inference, lines 33-37: every box of the result is taken.
ToBoxYolo(d) ==
  [label |-> YoloNames[d.cls], conf |-> d.conf,
   x |-> d.x1, y |-> d.y1, w |-> d.x2 - d.x1, h |-> d.y2 - d.y1, src |-> d]

BuildBoxesYolo(raw) == [i \in 1..Len(raw) |-> ToBoxYolo(raw[i])]

\* simulate_processing, lines 102-109: the ranges random draws from.
SimValid(d, W, H) ==
  /\ d.label \in SimLabels
  /\ d.conf \in 550..950 /\ d.conf % 10 = 0
  /\ d.w \in 40..120 /\ d.h \in 40..120
  /\ d.x \in 0..Max(0, W - d.w)
  /\ d.y \in 0..Max(0, H - d.h)

ToBoxSimulate(d) ==
  [label |-> d.label, conf |-> d.conf,
   x |-> d.x, y |-> d.y, w |-> d.w, h |-> d.h, src |-> d]

BuildBoxesSimulate(raw) == [i \in 1..Len(raw) |-> ToBoxSimulate(raw[i])]

\* ------------------------------------------------------------ aggregation
BBox(b, W, H) ==
  [top |-> Pct(b.y, H), left |-> Pct(b.x, W),
   width |-> Pct(b.w, W), height |-> Pct(b.h, H)]

SampleDetect(b, W, H) ==
  [label |-> b.label, confidence |-> Round2(b.conf), bbox |-> BBox(b, W, H)]

SampleYolo(b, W, H) ==
  [label |-> b.label, confidence |-> Round2(b.conf), bbox |-> BBox(b, W, H)]

SampleSimulate(b, W, H) ==
  [label |-> b.label, confidence |-> b.conf \div 10, bbox |-> BBox(b, W, H)]

SampleOf(kind, b, W, H) ==
  CASE kind = "detect_cars" -> SampleDetect(b, W, H)
    [] kind = "run_yolo_inference" -> SampleYolo(b, W, H)
    [] kind = "simulate_processing" -> SampleSimulate(b, W, H)

\* Length check with <= instead of <.
AppendSampleOffByOne(samples, s) ==
  IF Len(samples) <= MaxSamples THEN Append(samples, s) ELSE samples

\* if len(sample_detections) < 20: sample_detections.append(..)
AppendSample(samples, s) ==
  IF Len(samples) < MaxSamples THEN Append(samples, s) ELSE samples

\* if label in vehicle_counts: vehicle_counts[label] += 1
CountDetect(counts, label) ==
  IF label \in DOMAIN counts THEN [counts EXCEPT ![label] = @ + 1] ELSE counts

\* vehicle_counts[label] = vehicle_counts.get(label, 0) + 1
CountYolo(counts, label) ==
  [l \in (DOMAIN counts) \cup {label} |->
     IF l = label
     THEN (IF l \in DOMAIN counts THEN counts[l] ELSE 0) + 1
     ELSE counts[l]]

\* vehicle_counts[label] += 1
CountSimulate(counts, label) == [counts EXCEPT ![label] = @ + 1]

CountLabel(kind, counts, label) ==
  CASE kind = "detect_cars" -> CountDetect(counts, label)
    [] kind = "run_yolo_inference" -> CountYolo(counts, label)
    [] kind = "simulate_processing" -> CountSimulate(counts, label)

\* The accepted boxes of a frame, in index order (for i in range(len(boxes))).
RECURSIVE PickFrom(_, _, _)
PickFrom(bxs, idx, i) ==
  IF i > Len(bxs) THEN <<>>
  ELSE (IF i \in idx THEN <<bxs[i]>> ELSE <<>>) \o PickFrom(bxs, idx, i + 1)

AcceptedOf(bxs, idx) == PickFrom(bxs, idx, 1)

RECURSIVE CountAll(_, _, _)
CountAll(kind, counts, acc) ==
  IF acc = <<>> THEN counts
  ELSE CountAll(kind, CountLabel(kind, counts, Head(acc).label), Tail(acc))

RECURSIVE SampleAll(_, _, _, _, _)
SampleAll(kind, samples, acc, W, H) ==
  IF acc = <<>> THEN samples
  ELSE SampleAll(kind, AppendSample(samples, SampleOf(kind, Head(acc), W, H)),
                 Tail(acc), W, H)

\* ------------------------------------------------------- phase and report
PhaseY4(t) == IF t >= GreenMin THEN "green" ELSE IF t >= AmberMin THEN "amber" ELSE "red"

\* The amber boundary taken with > instead of >=.
PhasePVStrict(t) == IF t >= GreenMin THEN "green" ELSE IF t > AmberMin THEN "amber" ELSE "red"

PhasePV(t) == IF t >= GreenMin THEN "green" ELSE IF t >= AmberMin THEN "amber" ELSE "red"

ReportY4(counts, t, samples) ==
  [vehicle_counts |-> counts, total_vehicles |-> t, load_score |-> t,
   phase |-> PhaseY4(t), sample_detections |-> samples]

ReportPV(counts, t, samples) ==
  [vehicle_counts |-> counts, total_vehicles |-> t, load_score |-> SumValues(counts),
   phase |-> PhasePV(t), sample_detections |-> samples]

\* ------------------------------------------------------------------ inputs
\* Raw rows of the DNN output: class id (index into Classes, 9 is beyond the
\* names file), confidence and the centre box, all fractions in thousandths.
Row(cls, conf, cx, cy, w, h) ==
  [cls |-> cls, conf |-> conf, cx |-> cx, cy |-> cy, w |-> w, h |-> h, finite |-> TRUE]

DetectFrames ==
  { \* one car in the middle of the frame
    << Row(3, 900, 500, 500, 200, 200) >>,
    \* a chain of three overlapping vehicles of different classes
    << Row(3, 900, 500, 500, 200, 200), Row(6, 800, 560, 500, 200, 200),
       Row(8, 600, 620, 500, 200, 200) >>,
    \* four disjoint vehicles and a person
    << Row(3, 900, 150, 150, 200, 200), Row(6, 850, 450, 150, 200, 200),
       Row(8, 700, 150, 450, 200, 200), Row(4, 650, 450, 450, 200, 200),
       Row(1, 950, 800, 800, 200, 200) >>,
    \* a box leaving the frame on the left, a fractional box, a row at the
    \* confidence cut, a non-finite row and a class beyond the names file
    << Row(3, 800, 50, 500, 300, 200), Row(8, 700, 455, 255, 205, 305),
       Row(3, 500, 800, 800, 100, 100),
       [Row(3, 900, 500, 500, 200, 200) EXCEPT !.finite = FALSE],
       Row(9, 900, 800, 200, 100, 100) >> }

\* Boxes of a model result: class id (index into YoloNames), confidence and
\* pixel corners inside the frame.
YBox(cls, conf, x1, y1, x2, y2) ==
  [cls |-> cls, conf |-> conf, x1 |-> x1, y1 |-> y1, x2 |-> x2, y2 |-> y2]

YoloFrames ==
  { << YBox(3, 900, 40, 40, 60, 60) >>,
    << YBox(3, 900, 40, 40, 60, 60), YBox(3, 300, 46, 40, 66, 60) >>,
    << YBox(3, 900, 5, 5, 25, 25), YBox(6, 850, 35, 5, 55, 25),
       YBox(8, 700, 5, 35, 25, 55), YBox(1, 650, 35, 35, 55, 55) >>,
    << >> }

\* Boxes drawn by the simulation.
SBox(label, conf, w, h, x, y) ==
  [label |-> label, conf |-> conf, w |-> w, h |-> h, x |-> x, y |-> y]

SimulateFrames ==
  { << SBox("car", 900, 40, 40, 0, 0) >>,
    << SBox("car", 900, 40, 40, 10, 10), SBox("bus", 600, 40, 40, 12, 10) >>,
    << SBox("car", 900, 40, 40, 0, 0), SBox("jeep", 850, 40, 40, 50, 0),
       SBox("truck", 700, 40, 40, 0, 50), SBox("bicycle", 650, 40, 40, 50, 50) >>,
    << SBox("pedestrian", 550, 120, 120, 0, 0) >> }

RECURSIVE SeqsUpTo(_, _)
SeqsUpTo(S, n) ==
  IF n = 0 THEN {<<>>}
  ELSE LET shorter == SeqsUpTo(S, n - 1)
       IN shorter \cup {Append(q, e) : q \in shorter, e \in S}

\* Single-frame inputs for the per-frame functions: all frames of at most
\* MaxBoxes rows over a small set of rows.
DetectRows ==
  { Row(3, 900, 500, 455, 200, 305), Row(3, 900, 50, 455, 310, 305),
    Row(3, 900, 455, 455, 205, 305), Row(6, 800, 500, 455, 200, 305),
    Row(6, 800, 560, 455, 200, 305), Row(8, 600, 560, 455, 200, 305),
    Row(8, 600, 620, 455, 200, 305), Row(8, 600, 900, 455, 0, 305),
    Row(3, 500, 500, 455, 200, 305), Row(1, 900, 500, 455, 200, 305),
    Row(3, 900, 500, 500, 200, 200) }

DetectWideFrames == SeqsUpTo(DetectRows, MaxBoxes)

YoloRows ==
  {YBox(c[1], c[2], x1, 40, x1 + 20, 60) :
     c \in {<<3, 900>>, <<6, 600>>, <<3, 300>>}, x1 \in {40, 46, 52, 70}}

YoloWideFrames == SeqsUpTo(YoloRows, MaxBoxes)

SimulateRows ==
  {SBox(c[1], c[2], sz, sz, x, 0) :
     c \in {<<"car", 900>>, <<"bus", 550>>}, sz \in {40, 120}, x \in {0, 10, 60}}

SimulateWideFrames == SeqsUpTo(SimulateRows, MaxBoxes) \ {<<>>}

\* ------------------------------------------------------------------- state
VARIABLES
  pipeline,           \* which entry point runs
  input,              \* the input file: "ok", "missing" or "unreadable"
  writerOk,           \* whether cv2.VideoWriter can create the output file
  nframes,            \* number of frames the video yields
  width, height,      \* frame size
  pc,                 \* "start", "loop", "done" or "failed"
  capture,            \* cv2.VideoCapture handle
  writer,             \* cv2.VideoWriter handle
  framesRead,
  vehicle_counts, total, sample_detections,
  counted,            \* history: the sample form of every counted detection
  boxes, indexes,     \* the last frame's boxes and the accepted indices
  stdout, stderr

vars == <<pipeline, input, writerOk, nframes, width, height, pc, capture, writer,
          framesRead, vehicle_counts, total, sample_detections, counted,
          boxes, indexes, stdout, stderr>>

env == <<pipeline, input, writerOk, nframes, width, height>>
agg == <<vehicle_counts, total, sample_detections, counted>>
frame == <<boxes, indexes>>

InitRun ==
  /\ pc = "start"
  /\ capture = "none" /\ writer = "none"
  /\ framesRead = 0
  /\ vehicle_counts = InitCountsYolo /\ total = 0
  /\ sample_detections = <<>> /\ counted = <<>>
  /\ boxes = <<>> /\ indexes = {}
  /\ stdout = <<>> /\ stderr = <<>>

Init ==
  /\ pipeline \in Pipelines
  /\ input \in {"ok", "missing", "unreadable"}
  /\ writerOk \in BOOLEAN
  /\ nframes \in 0..MaxFrames
  /\ \E sz \in FrameSizes : width = sz[1] /\ height = sz[2]
  /\ InitRun

InitFrame ==
  /\ pipeline \in Pipelines
  /\ input = "ok"
  /\ writerOk = TRUE
  /\ nframes = 1
  /\ \E sz \in FrameSizes : width = sz[1] /\ height = sz[2]
  /\ InitRun

\* ----------------------------------------------- yolov4_detect.py actions
\* The except clause of __main__ (lines 171-175): both messages go to
\* stderr, nothing to stdout, exit status 1.
ExceptY4ToStdout(out, err) ==
  /\ stdout' = Append(out, [error |-> "Error in YOLOv4 detection"])
  /\ stderr' = err \o <<"error_msg">>
  /\ pc' = "failed"

ExceptY4(out, err) ==
  /\ stdout' = out
  /\ stderr' = err \o <<"error_msg", "error_json">>
  /\ pc' = "failed"

\* __main__ lines 147-154 and detect_cars lines 41-58.
OpenDetect ==
  /\ pc = "start" /\ pipeline = "detect_cars"
  /\ UNCHANGED <<env, frame, total, sample_detections, counted, framesRead>>
  /\ IF input = "missing"
     THEN /\ ExceptY4(stdout, stderr)
          /\ UNCHANGED <<capture, writer, vehicle_counts>>
     ELSE IF input = "unreadable"
     THEN /\ ExceptY4(stdout, stderr \o <<"Processing video", "Output will be saved to">>)
          /\ capture' = "unopened"
          /\ UNCHANGED <<writer, vehicle_counts>>
     ELSE /\ pc' = "loop"
          /\ capture' = "open"
          /\ writer' = IF writerOk THEN "open" ELSE "unopened"
          /\ vehicle_counts' = InitCountsDetect
          /\ stderr' = stderr \o <<"Processing video", "Output will be saved to">>
          /\ stdout' = stdout

\* One iteration of the while loop, lines 61-132.
DetectFrame(raw) ==
  /\ pc = "loop" /\ pipeline = "detect_cars"
  /\ framesRead < nframes
  /\ LET bxs == BuildBoxesDetect(raw, width, height)
         idx == IndexesDetect(bxs)
         acc == AcceptedOf(bxs, idx)
     IN /\ boxes' = bxs
        /\ indexes' = idx
        /\ vehicle_counts' = CountAll(pipeline, vehicle_counts, acc)
        /\ total' = total + Len(acc)
        /\ sample_detections' = SampleAll(pipeline, sample_detections, acc, width, height)
        /\ counted' = counted \o [i \in 1..Len(acc) |-> SampleOf(pipeline, acc[i], width, height)]
  /\ framesRead' = framesRead + 1
  /\ UNCHANGED <<env, pc, capture, writer, stdout, stderr>>

DetectStep ==
  /\ pc = "loop" /\ pipeline = "detect_cars" /\ framesRead < nframes
  /\ \E raw \in DetectFrames : DetectFrame(raw)

DetectWideStep ==
  /\ pc = "loop" /\ pipeline = "detect_cars" /\ framesRead < nframes
  /\ \E raw \in DetectWideFrames : DetectFrame(raw)

\* An exception escaping the loop body (net.forward, drawing, writing):
\* control leaves detect_cars before lines 134-135.
RaiseDetect ==
  /\ pc = "loop" /\ pipeline = "detect_cars"
  /\ framesRead < nframes
  /\ ExceptY4(stdout, stderr)
  /\ UNCHANGED <<env, agg, frame, capture, writer, framesRead>>

\* End of stream with a video of no frames treated as an error.
FinishDetectEmptyFatal ==
  /\ pc = "loop" /\ pipeline = "detect_cars"
  /\ framesRead = nframes
  /\ capture' = "released"
  /\ writer' = IF writer = "open" THEN "released" ELSE writer
  /\ IF writerOk /\ framesRead > 0
     THEN /\ stdout' = Append(stdout, ReportY4(vehicle_counts, total, sample_detections))
          /\ stderr' = Append(stderr, "Successfully processed")
          /\ pc' = "done"
     ELSE ExceptY4(stdout, stderr)
  /\ UNCHANGED <<env, agg, frame, framesRead>>

\* End of stream: lines 62-63, 134-137, then __main__ lines 156-170.
FinishDetect ==
  /\ pc = "loop" /\ pipeline = "detect_cars"
  /\ framesRead = nframes
  /\ capture' = "released"
  /\ writer' = IF writer = "open" THEN "released" ELSE writer
  /\ IF writerOk
     THEN /\ stdout' = Append(stdout, ReportY4(vehicle_counts, total, sample_detections))
          /\ stderr' = Append(stderr, "Successfully processed")
          /\ pc' = "done"
     ELSE ExceptY4(stdout, stderr)
  /\ UNCHANGED <<env, agg, frame, framesRead>>

\* ------------------------------------------------ process_video.py actions
\* An exception that main does not catch: traceback on stderr, no report.
UncaughtPV ==
  /\ stdout' = stdout
  /\ stderr' = Append(stderr, "traceback")
  /\ pc' = "failed"

\* simulate_processing lines 82-96.
OpenSimulate ==
  /\ pc = "start" /\ pipeline = "simulate_processing"
  /\ UNCHANGED <<env, frame, total, sample_detections, counted, framesRead>>
  /\ IF input # "ok"
     THEN /\ UncaughtPV
          /\ capture' = "unopened"
          /\ UNCHANGED <<writer, vehicle_counts>>
     ELSE /\ pc' = "loop"
          /\ capture' = "open"
          /\ writer' = IF writerOk THEN "open" ELSE "unopened"
          /\ vehicle_counts' = InitCountsSimulate
          /\ UNCHANGED <<stdout, stderr>>

\* One iteration of the while loop, lines 98-132.
SimulateFrame(raw) ==
  /\ pc = "loop" /\ pipeline = "simulate_processing"
  /\ framesRead < nframes
  /\ Len(raw) \in 1..4
  /\ \A i \in 1..Len(raw) : SimValid(raw[i], width, height)
  /\ LET bxs == BuildBoxesSimulate(raw)
     IN /\ boxes' = bxs
        /\ indexes' = 1..Len(bxs)
        /\ vehicle_counts' = CountAll(pipeline, vehicle_counts, bxs)
        /\ total' = total + Len(bxs)
        /\ sample_detections' = SampleAll(pipeline, sample_detections, bxs, width, height)
        /\ counted' = counted \o [i \in 1..Len(bxs) |-> SampleOf(pipeline, bxs[i], width, height)]
  /\ framesRead' = framesRead + 1
  /\ UNCHANGED <<env, pc, capture, writer, stdout, stderr>>

SimulateStep ==
  /\ pc = "loop" /\ pipeline = "simulate_processing" /\ framesRead < nframes
  /\ \E raw \in SimulateFrames : SimulateFrame(raw)

SimulateWideStep ==
  /\ pc = "loop" /\ pipeline = "simulate_processing" /\ framesRead < nframes
  /\ \E raw \in SimulateWideFrames : SimulateFrame(raw)

RaiseSimulate ==
  /\ pc = "loop" /\ pipeline = "simulate_processing"
  /\ framesRead < nframes
  /\ UncaughtPV
  /\ UNCHANGED <<env, agg, frame, capture, writer, framesRead>>

\* End of stream: lines 99-100, 134-137, then main lines 155-166.
FinishSimulate ==
  /\ pc = "loop" /\ pipeline = "simulate_processing"
  /\ framesRead = nframes
  /\ capture' = "released"
  /\ writer' = IF writer = "open" THEN "released" ELSE writer
  /\ stdout' = Append(stdout, ReportPV(vehicle_counts, total, sample_detections))
  /\ pc' = "done"
  /\ UNCHANGED <<env, agg, frame, framesRead, stderr>>

\* run_yolo_inference lines 22-28; the library opens the source when the
\* result stream is first advanced, and owns that handle.
OpenYolo ==
  /\ pc = "start" /\ pipeline = "run_yolo_inference"
  /\ UNCHANGED <<env, frame, agg, framesRead, writer>>
  /\ IF input # "ok"
     THEN /\ UncaughtPV
          /\ capture' = capture
     ELSE /\ pc' = "loop"
          /\ capture' = "library"
          /\ UNCHANGED <<stdout, stderr>>

\* One iteration of the for loop, lines 30-70.
YoloFrame(raw) ==
  /\ pc = "loop" /\ pipeline = "run_yolo_inference"
  /\ framesRead < nframes
  /\ LET bxs == BuildBoxesYolo(raw)
     IN /\ boxes' = bxs
        /\ indexes' = 1..Len(bxs)
        /\ vehicle_counts' = CountAll(pipeline, vehicle_counts, bxs)
        /\ total' = total + Len(bxs)
        /\ sample_detections' = SampleAll(pipeline, sample_detections, bxs, width, height)
        /\ counted' = counted \o [i \in 1..Len(bxs) |-> SampleOf(pipeline, bxs[i], width, height)]
  /\ writer' = IF writer = "none" THEN (IF writerOk THEN "open" ELSE "unopened") ELSE writer
  /\ framesRead' = framesRead + 1
  /\ UNCHANGED <<env, pc, capture, stdout, stderr>>

YoloStep ==
  /\ pc = "loop" /\ pipeline = "run_yolo_inference" /\ framesRead < nframes
  /\ \E raw \in YoloFrames : YoloFrame(raw)

YoloWideStep ==
  /\ pc = "loop" /\ pipeline = "run_yolo_inference" /\ framesRead < nframes
  /\ \E raw \in YoloWideFrames : YoloFrame(raw)

RaiseYolo ==
  /\ pc = "loop" /\ pipeline = "run_yolo_inference"
  /\ framesRead < nframes
  /\ UncaughtPV
  /\ UNCHANGED <<env, agg, frame, capture, writer, framesRead>>

\* End of stream: lines 72-75, then main lines 155-166.
FinishYolo ==
  /\ pc = "loop" /\ pipeline = "run_yolo_inference"
  /\ framesRead = nframes
  /\ writer' = IF writer = "open" THEN "released" ELSE writer
  /\ stdout' = Append(stdout, ReportPV(vehicle_counts, total, sample_detections))
  /\ pc' = "done"
  /\ UNCHANGED <<env, agg, frame, framesRead, capture, stderr>>

\* ---------------------------------------------------------- specifications
Next ==
  \/ OpenDetect \/ DetectStep \/ RaiseDetect \/ FinishDetect
  \/ OpenSimulate \/ SimulateStep \/ RaiseSimulate \/ FinishSimulate
  \/ OpenYolo \/ YoloStep \/ RaiseYolo \/ FinishYolo

Spec == Init /\ [][Next]_vars

NextFrame ==
  \/ OpenDetect \/ DetectWideStep \/ RaiseDetect \/ FinishDetect
  \/ OpenSimulate \/ SimulateWideStep \/ RaiseSimulate \/ FinishSimulate
  \/ OpenYolo \/ YoloWideStep \/ RaiseYolo \/ FinishYolo

SpecFrame == InitFrame /\ [][NextFrame]_vars

TypeOK ==
  /\ pc \in {"start", "loop", "done", "failed"}
  /\ total \in Nat /\ framesRead \in 0..nframes

\* ------------------------------------------------------------------ claims
Reports == {stdout[i] : i \in 1..Len(stdout)}

\* IoU of two pixel rectangles above 0.4, with IoU = intersection area over
\* union area and 0 when the rectangles do not overlap.
IoUAbove04(a, b) ==
  LET ix == Max(0, Min(a.x + a.w, b.x + b.w) - Max(a.x, b.x))
      iy == Max(0, Min(a.y + a.h, b.y + b.h) - Max(a.y, b.y))
      inter == ix * iy
      union == a.w * a.h + b.w * b.h - inter
  IN 10 * inter > 4 * union

\* i is picked before j: higher confidence, or the same and earlier.
Ranks(i, j) ==
  boxes[i].conf > boxes[j].conf \/ (boxes[i].conf = boxes[j].conf /\ i < j)

\* C1: in every emitted report, of either program, total_vehicles equals the
\* sum of the vehicle_counts values and load_score equals total_vehicles; the
\* running total equals the running sum of counts while frames are processed.
C1_TotalsAgree ==
  /\ \A r \in Reports :
       /\ r.total_vehicles = SumValues(r.vehicle_counts)
       /\ r.load_score = r.total_vehicles
  /\ pc \in {"loop", "done"} => total = SumValues(vehicle_counts)

C1_Witness ==
  /\ pipeline = "detect_cars" /\ pc = "done" /\ Len(stdout) = 1
  /\ stdout[1].total_vehicles >= 5
  /\ \E l \in DOMAIN stdout[1].vehicle_counts : stdout[1].vehicle_counts[l] >= 2

\* C2: the sample list never holds more than 20 entries and is exactly the
\* first min(20, n) counted detections, in the order they were counted; an
\* entry, once appended, is never removed, moved or changed.
C2_SamplesArePrefix ==
  /\ [](/\ Len(sample_detections) <= 20
        /\ Len(counted) = total
        /\ sample_detections = SubSeq(counted, 1, Min(20, Len(counted))))
  /\ [][/\ Len(sample_detections') >= Len(sample_detections)
        /\ \A i \in 1..Len(sample_detections) :
             sample_detections'[i] = sample_detections[i]]_vars

C2_Witness ==
  /\ Len(counted) > 20 /\ Len(sample_detections) = 20
  /\ counted[21] # counted[20]

C5_PhaseThresholds ==
  \A r \in Reports :
    /\ r.total_vehicles >= 15 => r.phase = "green"
    /\ (r.total_vehicles >= 8 /\ r.total_vehicles < 15) => r.phase = "amber"
    /\ r.total_vehicles < 8 => r.phase = "red"

C5_Witness ==
  /\ pipeline = "simulate_processing" /\ Len(stdout) = 1
  /\ stdout[1].total_vehicles = 8 /\ stdout[1].phase = "amber"

\* C6: a video that opens and yields no frame ends the run normally with one
\* report: total 0, all counts zero (or none), phase red, no samples.  (In
\* yolov4_detect.py the report additionally needs the output file to exist.)
C6_EmptyVideoReports ==
  (/\ input = "ok" /\ nframes = 0 /\ pc \notin {"start", "loop"}
   /\ pipeline = "detect_cars" => writerOk)
  => /\ pc = "done"
     /\ Len(stdout) = 1
     /\ stdout[1].total_vehicles = 0
     /\ \A l \in DOMAIN stdout[1].vehicle_counts : stdout[1].vehicle_counts[l] = 0
     /\ stdout[1].phase = "red"
     /\ stdout[1].sample_detections = <<>>

C6_Witness ==
  /\ input = "ok" /\ nframes = 0 /\ pc = "done" /\ pipeline = "detect_cars"
  /\ Len(stdout) = 1 /\ stdout[1].phase = "red"

\* C7: a run that fails (the input cannot be opened, an exception escapes the
\* frame loop, the output file is missing) writes nothing to standard output
\* and leaves its diagnostics on standard error; an input that cannot be
\* opened always ends that way.
C7_FatalWritesNoReport ==
  /\ pc = "failed" => (stdout = <<>> /\ Len(stderr) > 0)
  /\ input # "ok" => (stdout = <<>> /\ pc \in {"start", "failed"})

C7_Witness ==
  /\ pc = "failed" /\ input = "unreadable" /\ pipeline = "detect_cars"
  /\ Len(stderr) > 0

\* C8: when a run has ended, normally or by an exception, no video capture
\* or video writer handle is left open.
C8_HandlesReleased ==
  pc \in {"done", "failed"} => (capture # "open" /\ writer # "open")

\* C9: every bbox field of every reported sample lies between 0 and 100
\* percent.
C9_BBoxWithinPercent ==
  \A r \in Reports : \A i \in 1..Len(r.sample_detections) :
    LET bb == r.sample_detections[i].bbox
    IN /\ bb.top \in 0..10000 /\ bb.left \in 0..10000
       /\ bb.width \in 0..10000 /\ bb.height \in 0..10000

\* v is n/d rounded down (n >= 0, d > 0).
IsFloor(v, n, d) == d * v <= n /\ n < d * (v + 1)

\* v is n/2 with its fraction dropped.
IsTruncHalf(v, n) ==
  IF n >= 0 THEN 2 * v <= n /\ n < 2 * v + 2
  ELSE 2 * v - 2 < n /\ n <= 2 * v

\* C10 as stated: the pixel box of a centre-box detection is exactly
\* x = cx*W - w*W/2, y = cy*H - h*H/2, width = w*W, height = h*H.
C10_ExactPixelBox ==
  pipeline = "detect_cars" =>
    \A i \in 1..Len(boxes) :
      LET b == boxes[i]
          d == boxes[i].src
      IN /\ 2 * Milli * b.x = 2 * d.cx * width - d.w * width
         /\ 2 * Milli * b.y = 2 * d.cy * height - d.h * height
         /\ Milli * b.w = d.w * width
         /\ Milli * b.h = d.h * height

\* C10 amended: the pixel box is computed in whole pixels: width and height
\* are w*W and h*H rounded down, and x (y) is the rounded-down cx*W (cy*H)
\* minus half the pixel width (height), with the fraction dropped; it equals
\* the exact formula when cx*W, cy*H, w*W and h*H are whole and the pixel
\* width and height are even.
C10_TruncatedPixelBox ==
  pipeline = "detect_cars" =>
    \A i \in 1..Len(boxes) :
      LET b == boxes[i]
          d == boxes[i].src
          whole == /\ (d.cx * width) % Milli = 0 /\ (d.w * width) % (2 * Milli) = 0
                   /\ (d.cy * height) % Milli = 0 /\ (d.h * height) % (2 * Milli) = 0
      IN /\ IsFloor(b.w, d.w * width, Milli)
         /\ IsFloor(b.h, d.h * height, Milli)
         /\ \E c \in 0..width :
              IsFloor(c, d.cx * width, Milli) /\ IsTruncHalf(b.x, 2 * c - b.w)
         /\ \E c \in 0..height :
              IsFloor(c, d.cy * height, Milli) /\ IsTruncHalf(b.y, 2 * c - b.h)
         /\ whole =>
              /\ 2 * Milli * b.x = 2 * d.cx * width - d.w * width
              /\ 2 * Milli * b.y = 2 * d.cy * height - d.h * height
              /\ Milli * b.w = d.w * width
              /\ Milli * b.h = d.h * height

C10_Witness ==
  /\ pipeline = "detect_cars" /\ width = 100 /\ height = 100
  /\ \E i \in 1..Len(boxes) :
       /\ boxes[i].src.cx = 500 /\ boxes[i].src.cy = 500
       /\ boxes[i].src.w = 200 /\ boxes[i].src.h = 200
       /\ boxes[i].x = 40 /\ boxes[i].y = 40 /\ boxes[i].w = 20 /\ boxes[i].h = 20
  /\ \E i \in 1..Len(boxes) :
       /\ boxes[i].src.cx = 50 /\ boxes[i].src.w = 310
       /\ boxes[i].x = -10 /\ boxes[i].w = 31

====
